---- MODULE Spec2Model ----
(***************************************************************************)
(* Model of src/components/SymbolAnalyzer.tsx: the pipeline that turns the *)
(* rows of a bloaty CSV export into a size-aggregated symbol hierarchy.    *)
(*                                                                         *)
(* Strings are sequences of tokens.  A token is an atomic substring        *)
(* ("foo", "::", ".", " ", "__anon_", a digit, ...); every string          *)
(* operation of the source (startsWith, indexOf, slice, split, trim,       *)
(* the three suffix regular expressions) is defined on token sequences.    *)
(* No token contains a line terminator, so the m flag of the regular       *)
(* expressions has no effect on the names considered here.                 *)
(***************************************************************************)
EXTENDS Integers, Sequences, FiniteSets, TLC

(***************************************************************************)
(* Bounds of the model.                                                    *)
(***************************************************************************)
\* Largest number of rows in a CSV file.
MaxRows == 2

(***************************************************************************)
(* Tokens.                                                                 *)
(***************************************************************************)
AN == "__anon_"
ST == "__struct_"
SP == " "
DOT == "."
CC == "::"
LB == "["

Digits == {"1", "2"}

\* JavaScript's undefined / empty string for an optional string field.
Undef == <<>>

(***************************************************************************)
(* String helpers.                                                         *)
(***************************************************************************)
\* s.slice(n): the tokens after the first n.
Slice(s, n) == SubSeq(s, n + 1, Len(s))

\* s.slice(0, n)
Prefix(s, n) == SubSeq(s, 1, n)

\* s.indexOf(t) + 1: the 1-based position of the first t, 0 when absent.
IndexOf(s, t) ==
  IF \E i \in 1..Len(s) : s[i] = t
    THEN CHOOSE i \in 1..Len(s) : s[i] = t /\ \A j \in 1..(i - 1) : s[j] # t
    ELSE 0

\* s.includes(t)
Includes(s, t) == \E i \in 1..Len(s) : s[i] = t

RECURSIVE TrimStart(_)
TrimStart(s) ==
  IF s # <<>> /\ s[1] = SP THEN TrimStart(Tail(s)) ELSE s

RECURSIVE TrimEnd(_)
TrimEnd(s) ==
  IF s # <<>> /\ s[Len(s)] = SP THEN TrimEnd(Prefix(s, Len(s) - 1)) ELSE s

\* cleanName: "" for a falsy string, else str.trim()
cleanName(str) == IF str = <<>> THEN <<>> ELSE TrimEnd(TrimStart(str))

\* s.split(sep): the pieces between the occurrences of sep, empty ones kept.
RECURSIVE Split(_, _)
Split(s, sep) ==
  LET i == IndexOf(s, sep)
  IN IF i = 0 THEN <<s>>
     ELSE <<Prefix(s, i - 1)>> \o Split(Slice(s, i), sep)

\* arr.filter(Boolean) on an array of strings
RECURSIVE FilterNonEmpty(_)
FilterNonEmpty(arr) ==
  IF arr = <<>> THEN <<>>
  ELSE IF Head(arr) = <<>> THEN FilterNonEmpty(Tail(arr))
  ELSE <<Head(arr)>> \o FilterNonEmpty(Tail(arr))

\* arr.map(cleanName)
MapClean(arr) == [i \in 1..Len(arr) |-> cleanName(arr[i])]

(***************************************************************************)
(* The suffix regular expressions.                                         *)
(***************************************************************************)
\* The length of the run of digits that ends s.
RECURSIVE DigitRun(_)
DigitRun(s) ==
  IF s # <<>> /\ s[Len(s)] \in Digits
    THEN 1 + DigitRun(Prefix(s, Len(s) - 1))
    ELSE 0

\* The length of the match of  <marker>[0-9]+$  at the end of s, 0 if none.
SuffixLen(s, marker) ==
  LET d == DigitRun(s)
  IN IF d >= 1 /\ Len(s) > d /\ s[Len(s) - d] = marker THEN d + 1 ELSE 0

\* s.replaceAll(/__struct_([0-9]+)$/g, "")
StripStruct(s) == Prefix(s, Len(s) - SuffixLen(s, ST))

\* s.replaceAll(/__anon_([0-9]+)$/g, "")
StripAnon(s) == Prefix(s, Len(s) - SuffixLen(s, AN))

\* s.replaceAll(/__anon_([0-9]+)__struct_([0-9]+)$/g, "")
StripAnonStruct(s) ==
  LET k == SuffixLen(s, ST)
      rest == Prefix(s, Len(s) - k)
      a == SuffixLen(rest, AN)
  IN IF k > 0 /\ a > 0 THEN Prefix(rest, Len(rest) - a) ELSE s

(***************************************************************************)
(* Row Normalizer: the filter and the sort of the complete callback.       *)
(* A row is a record [symKind, symbols, sizeKind, vmsize, instantiations]: *)
(* symKind is "string" when the symbols cell is text and "missing" when it *)
(* is absent or of another type; sizeKind is "number" when the vmsize cell *)
(* is numeric and "string" when it holds non-numeric text.  An absent      *)
(* instantiations cell behaves as 0 under ?? and ??=, and is written 0.    *)
(***************************************************************************)
\* The callback of results.data.filter
KeepRow(row) ==
  /\ row.symKind = "string"
  /\ row.symbols # <<>>
  /\ \/ (row.sizeKind = "number" /\ row.vmsize = 0)
     \/ row.sizeKind = "number"

\* The collation order of the tokens, as localeCompare orders them:
\* white space and punctuation, then digits, then letters.
TokenOrder ==
  << SP, "_", DOT, CC, LB, "]", AN, ST, "_Z", "1", "2", "ab_c", "bar", "C",
     "char*", "const", "foo", "h0123456789abcdef", "m", "N", "toString", "v",
     "void*", "X" >>

TokenRank(t) == CHOOSE i \in 1..Len(TokenOrder) : TokenOrder[i] = t

\* a.localeCompare(b): -1, 0 or 1
RECURSIVE localeCompare(_, _)
localeCompare(a, b) ==
  IF a = <<>> /\ b = <<>> THEN 0
  ELSE IF a = <<>> THEN -1
  ELSE IF b = <<>> THEN 1
  ELSE IF a[1] = b[1] THEN localeCompare(Tail(a), Tail(b))
  ELSE IF TokenRank(a[1]) < TokenRank(b[1]) THEN -1
  ELSE 1

\* The comparator of .sort: size descending, ties by name ascending.
compareRows(a, b) ==
  IF b.vmsize = a.vmsize
    THEN localeCompare(a.symbols, b.symbols)
    ELSE b.vmsize - a.vmsize

\* Insert ref x into the sorted sequence of refs, after every element
\* that does not compare greater than it (Array.prototype.sort is stable).
RECURSIVE InsertSorted(_, _, _)
InsertSorted(rows, sorted, x) ==
  IF sorted = <<>> THEN <<x>>
  ELSE IF compareRows(rows[Head(sorted)], rows[x]) > 0
    THEN <<x>> \o sorted
    ELSE <<Head(sorted)>> \o InsertSorted(rows, Tail(sorted), x)

RECURSIVE SortRefs(_, _)
SortRefs(rows, refs) ==
  IF refs = <<>> THEN <<>>
  ELSE InsertSorted(rows, SortRefs(rows, Prefix(refs, Len(refs) - 1)),
                    refs[Len(refs)])

\* results.data.filter(...).sort(...): the kept rows, as references
\* (indices) into the array of row objects, in normalized order.
Normalize(rows) ==
  LET kept == SelectSeq([i \in 1..Len(rows) |-> i], LAMBDA i : KeepRow(rows[i]))
  IN SortRefs(rows, kept)

(***************************************************************************)
(* Instantiation Collapser: the dedupedSymbols loop.                       *)
(***************************************************************************)
\* let name = symbol.symbols.replaceAll(...).replaceAll(...).replaceAll(...)
CanonicalName(symbols) == StripAnon(StripAnonStruct(StripStruct(symbols)))

\* dedupedSymbols.get(key): the position of key in the map, 0 when absent.
\* The map is a sequence of entries [key, ref] in insertion order.
MapGet(map, key) ==
  IF \E i \in 1..Len(map) : map[i].key = key
    THEN CHOOSE i \in 1..Len(map) : map[i].key = key
    ELSE 0

\* dedupedSymbols.set(key, ref): an existing key keeps its position.
MapSet(map, key, ref) ==
  LET i == MapGet(map, key)
  IN IF i = 0 THEN Append(map, [key |-> key, ref |-> ref])
     ELSE [map EXCEPT ![i].ref = ref]

\* A merge that adds the counts and forgets the increment.
DedupMergeNoIncrement(rows, e, ref) ==
  [rows EXCEPT ![e].vmsize = @ + rows[ref].vmsize,
               ![e].instantiations = @ + rows[ref].instantiations]

\* existing.vmsize += symbol.vmsize;
\* existing.instantiations += (symbol.instantiations ?? 0) + 1;
DedupMerge(rows, e, ref) ==
  [rows EXCEPT ![e].vmsize = @ + rows[ref].vmsize,
               ![e].instantiations = @ + rows[ref].instantiations + 1]

\* An iteration that looks the canonical name up and stores the row under
\* the name it came with.
DedupStepKeepsName(st, ref) ==
  LET symbol == st.rows[ref]
      name == CanonicalName(symbol.symbols)
      i == MapGet(st.map, name)
  IN IF i # 0
       THEN [rows |-> DedupMerge(st.rows, st.map[i].ref, ref), map |-> st.map]
       ELSE [rows |-> st.rows, map |-> MapSet(st.map, symbol.symbols, ref)]

\* One iteration of  for (const symbol of sortedSymbols)  on the state
\* st = [rows, map]; the row objects are mutated in place.
DedupStep(st, ref) ==
  LET symbol == st.rows[ref]
      name == CanonicalName(symbol.symbols)
      i == MapGet(st.map, name)
  IN IF i # 0
       THEN [rows |-> DedupMerge(st.rows, st.map[i].ref, ref), map |-> st.map]
       ELSE LET newName == IF ~(name = <<"_">> /\ name # symbol.symbols)
                             THEN name ELSE symbol.symbols
            IN [rows |-> [st.rows EXCEPT ![ref].symbols = newName],
                map |-> MapSet(st.map, newName, ref)]

RECURSIVE DedupLoop(_, _)
DedupLoop(st, sorted) ==
  IF sorted = <<>> THEN st
  ELSE DedupLoop(DedupStep(st, Head(sorted)), Tail(sorted))

\* The collapser: the mutated row objects and
\* Array.from(dedupedSymbols.values()) as a sequence of references.
Dedup(rows, sorted) ==
  LET st == DedupLoop([rows |-> rows, map |-> <<>>], sorted)
  IN [rows |-> st.rows,
      symbols |-> [i \in 1..Len(st.map) |-> st.map[i].ref]]

\* sortedSymbols.reduce((max, symbol) => Math.max(max, symbol.vmsize), 0)
RECURSIVE MaxVmSize(_, _)
MaxVmSize(rows, refs) ==
  IF refs = <<>> THEN 0
  ELSE LET m == MaxVmSize(rows, Prefix(refs, Len(refs) - 1))
           v == rows[refs[Len(refs)]].vmsize
       IN IF v > m THEN v ELSE m

(***************************************************************************)
(* Path Segmenter: processSymbol.                                          *)
(***************************************************************************)
\* The keywords that the loop tests with a following space.
KeywordsWithSpace ==
  {"void", "auto", "int", "char", "long", "short", "unsigned", "float",
   "double", "bool", "const", "volatile", "restrict"}

\* The keywords that the loop tests without a following space.
KeywordsBare == {"void*", "char*"}

\* The condition of the while loop.
StartsWithKeyword(symbol) ==
  \/ Len(symbol) >= 2 /\ symbol[1] \in KeywordsWithSpace /\ symbol[2] = SP
  \/ Len(symbol) >= 1 /\ symbol[1] \in KeywordsBare

\* The while loop never ends: a pass of it leaves the symbol as it was.
RECURSIVE StripHangs(_)
StripHangs(symbol) ==
  /\ StartsWithKeyword(symbol)
  /\ \/ IndexOf(symbol, SP) = 0
     \/ StripHangs(Slice(symbol, IndexOf(symbol, SP)))

\* One pass of the loop body where the source has a loop.
StripKeywordsOnce(symbol) ==
  IF StartsWithKeyword(symbol) /\ IndexOf(symbol, SP) # 0
    THEN Slice(symbol, IndexOf(symbol, SP))
    ELSE symbol

\* The symbol after the while loop, for a symbol on which it ends:
\* symbol = symbol.slice(symbol.indexOf(" ") + 1)
RECURSIVE StripKeywords(_)
StripKeywords(symbol) ==
  IF StartsWithKeyword(symbol) /\ IndexOf(symbol, SP) # 0
    THEN StripKeywords(Slice(symbol, IndexOf(symbol, SP)))
    ELSE symbol

\* The split of a stripped symbol with "::" tried before ".".
SplitPartsColonFirst(symbol) ==
  IF symbol # <<>> /\ symbol[1] = LB THEN <<symbol>>
  ELSE IF Includes(symbol, CC)
    THEN FilterNonEmpty(MapClean(Split(symbol, CC)))
  ELSE IF Includes(symbol, DOT)
    THEN FilterNonEmpty(MapClean(Split(symbol, DOT)))
  ELSE <<cleanName(symbol)>>

\* The if / else-if chain of processSymbol on the stripped symbol.
SplitParts(symbol) ==
  IF symbol # <<>> /\ symbol[1] = LB THEN <<symbol>>
  ELSE IF Includes(symbol, DOT)
    THEN FilterNonEmpty(MapClean(Split(symbol, DOT)))
  ELSE IF Includes(symbol, CC)
    THEN FilterNonEmpty(MapClean(Split(symbol, CC)))
  ELSE <<cleanName(symbol)>>

\* processSymbol(symbol), for a symbol on which the while loop ends.
processSymbol(symbol) == SplitParts(StripKeywords(symbol))

(***************************************************************************)
(* Tree Builder.  A tree is a record [node, order]: node maps the path of  *)
(* a node (the sequence of child keys from the root, <<>> for the root) to *)
(* its fields, order lists the paths in creation order, which is the order *)
(* of Object.values and Object.entries among the children of a node.       *)
(***************************************************************************)
\* The property names every object literal inherits from Object.prototype
\* (constructor, toString, valueOf, ...): children[key] is a function
\* object for them, although children has no such own property.
InheritedKeys == {<<"toString">>}

\* const root: TreeNode = { name: "root", size: 0, children: {}, instantiations: 0 }
NewRoot ==
  [node |-> (<<>> :> [name |-> <<"root">>, size |-> 0, fullPath |-> Undef,
                      originalSymbol |-> Undef, instantiations |-> 0]),
   order |-> << <<>> >>]

\* The value of the hierarchy state before any build: null.
NoTree == [node |-> <<>>, order |-> <<>>]

\* The paths of the children of the node at p, as a set and in key order.
ChildSet(tree, p) ==
  {q \in DOMAIN tree.node : Len(q) = Len(p) + 1 /\ Prefix(q, Len(p)) = p}

ChildSeq(tree, p) ==
  SelectSeq(tree.order,
            LAMBDA q : Len(q) = Len(p) + 1 /\ Prefix(q, Len(p)) = p)

IsLeaf(tree, p) == ChildSet(tree, p) = {}

\* A lookup that finds nothing: every part is created anew.
HasChildNever(tree, cur, part) == FALSE

\* current?.children?.[part] is truthy: an own child, or an inherited
\* member of Object.prototype.
HasChild(tree, cur, part) ==
  \/ (cur \o <<part>>) \in DOMAIN tree.node
  \/ part \in InheritedKeys

\* current.children[part] = { name: part, size: 0, children: {},
\*   fullPath: path, originalSymbol: symbol.symbols, instantiations: 0 }
\* The assignment replaces whatever the key held, its subtree included;
\* a key that existed keeps its place in the key order.
CreateChild(tree, cur, part, path, symbol) ==
  LET q == cur \o <<part>>
      Under(r) == Len(r) > Len(q) /\ Prefix(r, Len(q)) = q
      keep == {r \in DOMAIN tree.node : ~Under(r)} \cup {q}
      fresh == [name |-> part, size |-> 0, fullPath |-> path,
                originalSymbol |-> symbol.symbols, instantiations |-> 0]
      ord == SelectSeq(tree.order, LAMBDA r : ~Under(r))
  IN [node |-> [r \in keep |-> IF r = q THEN fresh ELSE tree.node[r]],
      order |-> IF q \in DOMAIN tree.node THEN ord ELSE Append(ord, q)]

\* The callback of parts.forEach for part number i.  st = [tree, attached,
\* current, path]: current is the path of the node the walk stands on;
\* attached is FALSE once the walk has stepped onto an object that is not
\* a node of the tree (an inherited member of Object.prototype); whatever
\* the walk creates or adds from there on is outside the tree.
InsertPart(st, symbol, parts, i) ==
  LET part == parts[i]
      path == IF st.path # <<>> THEN st.path \o <<CC>> \o part ELSE part
      q == st.current \o <<part>>
      t1 == IF ~HasChild(st.tree, st.current, part)
              THEN CreateChild(st.tree, st.current, part, path, symbol)
              ELSE st.tree
      t2 == IF i = Len(parts)
              THEN [t1 EXCEPT !.node[q].size = @ + symbol.vmsize,
                              !.node[q].instantiations =
                                 @ + symbol.instantiations]
              ELSE t1
  IN IF part = <<>> THEN st
     ELSE IF ~st.attached THEN [st EXCEPT !.path = path]
     ELSE IF q \in DOMAIN t1.node
       THEN [tree |-> t2, attached |-> TRUE, current |-> q, path |-> path]
       ELSE [st EXCEPT !.attached = FALSE, !.path = path]

RECURSIVE InsertParts(_, _, _, _)
InsertParts(st, symbol, parts, i) ==
  IF i > Len(parts) THEN st
  ELSE InsertParts(InsertPart(st, symbol, parts, i), symbol, parts, i + 1)

\* The callback of sortedSymbols.forEach for one record.
InsertSymbol(tree, symbol) ==
  InsertParts([tree |-> tree, attached |-> TRUE, current |-> <<>>,
               path |-> <<>>],
              symbol, processSymbol(symbol.symbols), 1).tree

\* The tree after the first k records of symbols (references into rows).
RECURSIVE BuildPrefix(_, _, _)
BuildPrefix(rows, symbols, k) ==
  IF k = 0 THEN NewRoot
  ELSE InsertSymbol(BuildPrefix(rows, symbols, k - 1), rows[symbols[k]])

\* calculateTotalSize(node): the value it returns and stores in node.size,
\* and the reduce over Object.values(node.children) for a set of children.
RECURSIVE calculateTotalSize(_, _)
RECURSIVE SumChildren(_, _)
calculateTotalSize(tree, p) ==
  tree.node[p].size + SumChildren(tree, ChildSet(tree, p))

SumChildren(tree, S) ==
  IF S = {} THEN 0
  ELSE LET c == CHOOSE c \in S : TRUE
       IN calculateTotalSize(tree, c) + SumChildren(tree, S \ {c})

\* The tree after calculateTotalSize(root).
Aggregate(tree) ==
  [tree EXCEPT !.node = [p \in DOMAIN tree.node |->
                           [tree.node[p] EXCEPT
                              !.size = calculateTotalSize(tree, p)]]]

(***************************************************************************)
(* Variant Merger: mergeInstantiations, applied to the array [root].       *)
(***************************************************************************)
\* groups.get(key) exists
HasGroup(groups, key) == key \in DOMAIN groups

\* The base name the grouping traversal (processNode) computes.
GroupBaseName(name) == StripAnon(StripAnonStruct(name))

\* The base name the annotating traversal (transformNode) computes.
AnnotateBaseName(name) == StripAnonStruct(StripAnon(name))

\* The leaf part of processNode: the groups after the leaf at p.
AddLeaf(tree, groups, p) ==
  LET node == tree.node[p]
      baseName == GroupBaseName(node.name)
      old == IF HasGroup(groups, baseName) THEN groups[baseName]
             ELSE [name |-> baseName, size |-> 0, count |-> 0,
                   originalSymbols |-> <<>>, instantiations |-> 0]
      new == [old EXCEPT
                !.size = @ + node.size,
                !.count = @ + 1,
                !.instantiations = @ + 1,
                !.originalSymbols =
                   IF node.originalSymbol # Undef
                     THEN Append(@, node.originalSymbol) ELSE @]
  IN IF baseName # <<>> THEN (baseName :> new) @@ groups ELSE groups

\* processNode(node) and, for a sequence of nodes, forEach(processNode).
RECURSIVE processNode(_, _, _)
RECURSIVE processNodes(_, _, _)
processNode(tree, groups, p) ==
  processNodes(tree,
               IF IsLeaf(tree, p) THEN AddLeaf(tree, groups, p) ELSE groups,
               ChildSeq(tree, p))

processNodes(tree, groups, ps) ==
  IF ps = <<>> THEN groups
  ELSE processNodes(tree, processNode(tree, groups, Head(ps)), Tail(ps))

\* instantiations: group?.count || node.instantiations
AnnotatedCount(groups, node) ==
  LET baseName == AnnotateBaseName(node.name)
  IN IF HasGroup(groups, baseName) /\ groups[baseName].count # 0
       THEN groups[baseName].count
       ELSE node.instantiations

\* A keying of the transformed children by their base name.
TransformKeyBaseName(node) == GroupBaseName(node.name)

\* transformedChildren[result.name] = result: the key of a transformed node.
TransformKey(node) == node.name

\* transformNode(node) for the node at p, placed at path np of the result,
\* and its loop over Object.entries(node.children): acc is the result so
\* far, cs the children still to transform.  A child whose key is already
\* taken replaces the earlier one.
RECURSIVE transformNode(_, _, _, _)
RECURSIVE transformChildren(_, _, _, _, _)
transformNode(tree, groups, p, np) ==
  transformChildren(
    tree, groups, np,
    [node |-> (np :> [tree.node[p] EXCEPT
                        !.instantiations =
                           AnnotatedCount(groups, tree.node[p])]),
     order |-> <<np>>],
    ChildSeq(tree, p))

transformChildren(tree, groups, np, acc, cs) ==
  IF cs = <<>> THEN acc
  ELSE LET c == Head(cs)
           k == np \o <<TransformKey(tree.node[c])>>
           sub == transformNode(tree, groups, c, k)
           Under(r) == Len(r) >= Len(k) /\ Prefix(r, Len(k)) = k
           old == {r \in DOMAIN acc.node : ~Under(r)}
           ord == SelectSeq(acc.order, LAMBDA r : ~Under(r) \/ r = k)
       IN transformChildren(
            tree, groups, np,
            [node |-> sub.node @@ [r \in old |-> acc.node[r]],
             order |-> (IF k \in DOMAIN acc.node THEN ord ELSE Append(ord, k))
                       \o Tail(sub.order)],
            Tail(cs))

\* mergeInstantiations([tree])[0]
mergeInstantiations(tree) ==
  transformNode(tree, processNode(tree, <<>>, <<>>), <<>>, <<>>)

(***************************************************************************)
(* The complete callback of Papa.parse, as a function of the parsed rows.  *)
(***************************************************************************)
\* processSymbol loops for ever on one of the records.
BuildHangs(rows, symbols) ==
  \E k \in 1..Len(symbols) : StripHangs(rows[symbols[k]].symbols)

\* The locals of the callback when it has run to its end: the row objects
\* as the collapser left them, the normalized order, the records (as
\* references to row objects), maxVmSize, the tree before and after
\* calculateTotalSize.
Build(data) ==
  LET normalized == Normalize(data)
      deduped == Dedup(data, normalized)
      built == BuildPrefix(deduped.rows, deduped.symbols, Len(deduped.symbols))
  IN [data |-> data,
      rows |-> deduped.rows,
      normalized |-> normalized,
      symbols |-> deduped.symbols,
      hangs |-> BuildHangs(deduped.rows, deduped.symbols),
      maxVmSize |-> MaxVmSize(deduped.rows, deduped.symbols),
      built |-> built,
      root |-> Aggregate(built)]

\* The locals before any callback has run.
NoBuild ==
  [data |-> <<>>, rows |-> <<>>, normalized |-> <<>>, symbols |-> <<>>,
   hangs |-> FALSE, maxVmSize |-> 0, built |-> NoTree, root |-> NoTree]

(***************************************************************************)
(* Text.  A name is a sequence of tokens; its text is the sequence of the  *)
(* characters of its tokens, on which the regular expressions, includes    *)
(* and toLowerCase of the classifier and of the filter work.               *)
(***************************************************************************)
\* The characters of a token.
Chars(t) == [i \in 1..Len(t) |-> SubSeq(t, i, i)]

\* The characters of a string; undefined has none.
RECURSIVE Text(_)
Text(s) == IF s = <<>> THEN <<>> ELSE Chars(Head(s)) \o Text(Tail(s))

UpperCase == Chars("ABCDEFGHIJKLMNOPQRSTUVWXYZ")

LowerCase == Chars("abcdefghijklmnopqrstuvwxyz")

DigitChars == Chars("0123456789")

\* The set of the characters of a class.
Class(cs) == {cs[i] : i \in 1..Len(cs)}

\* The text p stands in the text s at position i.
MatchAt(s, i, p) == i + Len(p) - 1 <= Len(s) /\ SubSeq(s, i, i + Len(p) - 1) = p

\* s.includes(p)
IncludesText(s, p) == \E i \in 1..(Len(s) + 1) : MatchAt(s, i, p)

\* s.startsWith(p), /^p/
StartsWithText(s, p) == MatchAt(s, 1, p)

\* /p$/
EndsWithText(s, p) == Len(s) >= Len(p) /\ MatchAt(s, Len(s) - Len(p) + 1, p)

\* c.toLowerCase() for one character
LowerChar(c) ==
  IF \E i \in 1..Len(UpperCase) : UpperCase[i] = c
    THEN LowerCase[CHOOSE i \in 1..Len(UpperCase) : UpperCase[i] = c]
    ELSE c

\* s.toLowerCase()
toLowerCase(s) == [i \in 1..Len(s) |-> LowerChar(s[i])]

(***************************************************************************)
(* Symbol Classifier: categorizeSymbol.                                    *)
(***************************************************************************)
\* The condition of the first if: the SYS-V patterns.
IsSysV(s) ==
  \/ s # <<>> /\ s[1] = "[" /\ \E i \in 2..Len(s) : s[i] = "]"
  \/ IncludesText(s, Chars("__"))
  \/ EndsWithText(s, Chars(".dynsym"))
  \/ Len(s) >= 2 /\ s[1] = "_" /\ s[2] \in Class(UpperCase) \cup {"_"}
  \/ IncludesText(s, Chars("_Prototype__"))

\* /h[0-9a-f]{16}/
MatchesHash(s) ==
  \E i \in 1..(Len(s) - 16) :
    /\ s[i] = "h"
    /\ \A j \in 1..16 : s[i + j] \in Class(DigitChars) \cup Class(Chars("abcdef"))

\* /::_\$|::[a-z0-9]{2}_/
MatchesRustPath(s) ==
  \/ IncludesText(s, Chars("::_$"))
  \/ \E i \in 1..(Len(s) - 4) :
       /\ MatchAt(s, i, Chars("::"))
       /\ s[i + 2] \in Class(LowerCase) \cup Class(DigitChars)
       /\ s[i + 3] \in Class(LowerCase) \cup Class(DigitChars)
       /\ s[i + 4] = "_"

\* The condition of the second if: the Rust patterns.
IsRust(s) ==
  \/ MatchesHash(s)
  \/ IncludesText(s, Chars("_rs::"))
  \/ StartsWithText(s, Chars("rust_"))
  \/ MatchesRustPath(s)
  \/ IncludesText(s, Chars("$u20$"))
  \/ IncludesText(s, Chars("$LT$")) \/ IncludesText(s, Chars("$GT$"))
  \/ IncludesText(s, Chars("lol_html"))

\* The condition of the third if: the C++ patterns.
IsCpp(s) ==
  \/ IncludesText(s, Chars("::"))
  \/ \E i \in 1..Len(s) : s[i] = "<" /\ \E j \in (i + 1)..Len(s) : s[j] = ">"
  \/ IncludesText(s, Chars("namespace"))
  \/ /\ Len(s) >= 3
     /\ s[1] \in Class(UpperCase)
     /\ EndsWithText(s, Chars("_t"))
     /\ \A i \in 2..(Len(s) - 2) : s[i] # "."

\* The condition of the fourth if.
IsZig(s) == IncludesText(s, Chars("."))

\* A ladder that looks for the dot before it looks for the C++ patterns.
categorizeSymbolZigFirst(fullPath) ==
  IF fullPath = Undef THEN "Other"
  ELSE IF IsSysV(Text(fullPath)) THEN "SYS-V"
  ELSE IF IsRust(Text(fullPath)) THEN "Rust"
  ELSE IF IsZig(Text(fullPath)) THEN "Zig"
  ELSE IF IsCpp(Text(fullPath)) THEN "C++"
  ELSE "Other"

\* categorizeSymbol(fullPath); undefined and "" are falsy.
categorizeSymbol(fullPath) ==
  IF fullPath = Undef THEN "Other"
  ELSE IF IsSysV(Text(fullPath)) THEN "SYS-V"
  ELSE IF IsRust(Text(fullPath)) THEN "Rust"
  ELSE IF IsCpp(Text(fullPath)) THEN "C++"
  ELSE IF IsZig(Text(fullPath)) THEN "Zig"
  ELSE "Other"

(***************************************************************************)
(* The inputs.                                                             *)
(***************************************************************************)
Names ==
  { <<"foo", AN, "1">>,                      \* foo__anon_1
    <<"foo", AN, "2">>,                      \* foo__anon_2
    <<"foo">>,
    <<"_", AN, "1">>,                        \* ___anon_1
    <<"_", AN, "1", AN, "2">>,               \* ___anon_1__anon_2
    <<"_">>,
    <<"foo", ST, "1", AN, "2">>,             \* foo__struct_1__anon_2
    <<"foo", AN, "1", ST, "2">>,             \* foo__anon_1__struct_2
    <<"N", CC, "C", CC, "m">>,               \* N::C::m
    <<"foo", DOT, SP, DOT, "N", CC, "m">>,   \* foo. .N::m
    <<LB, "v", SP, "X", DOT, "m", "]">>,     \* [v X.m]
    <<"const", SP, "char*", SP, "foo", DOT, "bar">>,
    <<"void*", "foo">>,                      \* void*foo
    <<"void*", "foo", SP, "bar">>,           \* void*foo bar
    <<"const", SP>>,
    <<"toString">>,
    <<"foo", AN, "1", AN, "2", ST, "1", SP>> \* foo__anon_1__anon_2__struct_1 and a space
  }

Sizes == {0, 10, 20}

Counts == {0, 1}

\* The rows Papa.parse can hand to the callback: well-formed rows, a row
\* without a textual symbols cell and a row with a non-numeric vmsize cell.
RowValues ==
  [symKind : {"string"}, symbols : Names, sizeKind : {"number"},
   vmsize : Sizes, instantiations : Counts]
  \cup {[symKind |-> "missing", symbols |-> <<>>, sizeKind |-> "number",
         vmsize |-> 1, instantiations |-> 0],
        [symKind |-> "string", symbols |-> <<"foo">>, sizeKind |-> "string",
         vmsize |-> 0, instantiations |-> 0]}

RowArrays == UNION {[1..n -> RowValues] : n \in 0..MaxRows}

FileNames == {"A"}

\* The names of the files whose rows the tree view is examined on.
ViewNames ==
  { <<"N", CC, "C", CC, "m">>,               \* N::C::m
    <<"N", CC, "ab_c">>,                     \* N::ab_c
    <<"_Z", CC, "m">>,                       \* _Z::m
    <<"foo", DOT, SP, DOT, "N", CC, "m">>,   \* foo. .N::m
    <<"foo", CC, "h0123456789abcdef">>,      \* foo::h0123456789abcdef
    <<"foo", DOT, "bar">>,                   \* foo.bar
    <<"foo">>,
    <<"void*", "foo">>                       \* void*foo
  }

MaxViewRows == 2

ViewRowValues ==
  [symKind : {"string"}, symbols : ViewNames, sizeKind : {"number"},
   vmsize : {10}, instantiations : {0}]

ViewArrays == UNION {[1..n -> ViewRowValues] : n \in 0..MaxViewRows}

\* What is typed into the search box.
SearchTerms == {<<>>, <<"m">>, <<"C", CC, "M">>, <<"N">>}

\* The category buttons that are clicked.
ToggleCategories == {"C++", "Zig"}

\* currentFile before any file was chosen: undefined.
NoFile == "undefined"

(***************************************************************************)
(* The component SymbolAnalyzer.                                           *)
(***************************************************************************)
VARIABLES
  files,        \* the rows that decoding and parsing each file yields
  pending,      \* the files whose processFile is at its await
  currentFile,  \* useState<string>()
  hierarchy,    \* useState<TreeNode | null>(null)
  maxSize,      \* useState(0)
  minSize,      \* useState(1024 * 10)
  build,        \* the locals of the last complete callback that ended
  hung,         \* a complete callback is in a loop that never ends
  activeFilters, \* useState<Set<string>>(new Set())
  searchTerm    \* useState("")

vars ==
  <<files, pending, currentFile, hierarchy, maxSize, minSize, build, hung,
    activeFilters, searchTerm>>

DefaultMinSize == 10240

Init ==
  /\ files \in [FileNames -> RowArrays]
  /\ pending = {}
  /\ currentFile = NoFile
  /\ hierarchy = NoTree
  /\ maxSize = 0
  /\ minSize = DefaultMinSize
  /\ build = NoBuild
  /\ hung = FALSE
  /\ activeFilters = {}
  /\ searchTerm = <<>>

\* processFile(file) up to its await: setCurrentFile(file.name)
ProcessFile(f) ==
  /\ ~hung
  /\ f \notin pending
  /\ currentFile' = f
  /\ pending' = pending \cup {f}
  /\ UNCHANGED <<files, hierarchy, maxSize, minSize, build, hung>>
  /\ UNCHANGED <<activeFilters, searchTerm>>

\* The rest of processFile: Papa.parse calls complete, which runs to
\* setHierarchy(root).
Complete(f) ==
  /\ ~hung
  /\ f \in pending
  /\ \E b \in {Build(files[f])} :
        /\ ~b.hangs
        /\ build' = b
        /\ maxSize' = b.maxVmSize
        /\ minSize' = DefaultMinSize
        /\ hierarchy' = b.root
  /\ pending' = pending \ {f}
  /\ UNCHANGED <<files, currentFile, hung, activeFilters, searchTerm>>

\* The complete callback enters processSymbol's while loop and never
\* leaves it: nothing it has set is rendered, no later event is handled.
CompleteHangs(f) ==
  /\ ~hung
  /\ f \in pending
  /\ Build(files[f]).hangs
  /\ hung' = TRUE
  /\ pending' = pending \ {f}
  /\ UNCHANGED <<files, currentFile, hierarchy, maxSize, minSize, build>>
  /\ UNCHANGED <<activeFilters, searchTerm>>

\* The onClick of the Change File button, rendered while hierarchy is set.
ChangeFile ==
  /\ ~hung
  /\ hierarchy # NoTree
  /\ hierarchy' = NoTree
  /\ currentFile' = NoFile
  /\ UNCHANGED <<files, pending, maxSize, minSize, build, hung>>
  /\ UNCHANGED <<activeFilters, searchTerm>>

Next ==
  \/ \E f \in FileNames : ProcessFile(f)
  \/ \E f \in FileNames : Complete(f)
  \/ \E f \in FileNames : CompleteHangs(f)
  \/ ChangeFile

Spec == Init /\ [][Next]_vars

(***************************************************************************)
(* The filter controls, rendered while hierarchy is set, and the filter    *)
(* predicate of the top-level nodes.                                       *)
(***************************************************************************)
\* onChange of the search box: setSearchTerm(e.target.value)
SetSearchTerm(value) ==
  /\ ~hung
  /\ hierarchy # NoTree
  /\ searchTerm' = value
  /\ UNCHANGED <<files, pending, currentFile, hierarchy, maxSize, minSize,
                 build, hung, activeFilters>>

\* toggleFilter(category), the onClick of a category button
toggleFilter(category) ==
  /\ ~hung
  /\ hierarchy # NoTree
  /\ activeFilters' = IF category \in activeFilters
                        THEN activeFilters \ {category}
                        ELSE activeFilters \cup {category}
  /\ UNCHANGED <<files, pending, currentFile, hierarchy, maxSize, minSize,
                 build, hung, searchTerm>>

\* setCurrentMin(Number(e.target.value)) of the size slider, whose range
\* input runs from 0 to maxSize.
setCurrentMin(value) ==
  /\ ~hung
  /\ hierarchy # NoTree
  /\ value \in 0..maxSize
  /\ minSize' = value
  /\ UNCHANGED <<files, pending, currentFile, hierarchy, maxSize, build,
                 hung, activeFilters, searchTerm>>

\* node.fullPath || node.originalSymbol || node.name
SearchTarget(node) ==
  IF node.fullPath # Undef THEN node.fullPath
  ELSE IF node.originalSymbol # Undef THEN node.originalSymbol
  ELSE node.name

\* const matchesCategory = activeFilters.size === 0 || activeFilters.has(category)
matchesCategory(node) ==
  activeFilters = {} \/ categorizeSymbol(node.originalSymbol) \in activeFilters

\* const matchesSearch = !searchTerm || (...).toLowerCase().includes(searchLower)
matchesSearch(node) ==
  \/ searchTerm = <<>>
  \/ IncludesText(toLowerCase(Text(SearchTarget(node))),
                  toLowerCase(Text(searchTerm)))

\* matchesFilters(node)
matchesFilters(node) ==
  IF node.size < minSize THEN FALSE
  ELSE matchesCategory(node) /\ matchesSearch(node)

\* The paths of the top-level nodes that are rendered:
\* Object.values(hierarchy.children).filter((child) => matchesFilters(child))
Rendered ==
  {p \in ChildSet(hierarchy, <<>>) : matchesFilters(hierarchy.node[p])}

InitView ==
  /\ files \in [FileNames -> ViewArrays]
  /\ pending = {}
  /\ currentFile = NoFile
  /\ hierarchy = NoTree
  /\ maxSize = 0
  /\ minSize = DefaultMinSize
  /\ build = NoBuild
  /\ hung = FALSE
  /\ activeFilters = {}
  /\ searchTerm = <<>>

NextView ==
  \/ \E f \in FileNames : ProcessFile(f)
  \/ \E f \in FileNames : Complete(f)
  \/ \E f \in FileNames : CompleteHangs(f)
  \/ ChangeFile
  \/ \E value \in SearchTerms : SetSearchTerm(value)
  \/ \E category \in ToggleCategories : toggleFilter(category)
  \/ \E value \in {0, maxSize} : setCurrentMin(value)

SpecView == InitView /\ [][NextView]_vars

(***************************************************************************)
(* Two files chosen one after the other: processFile can be started for a  *)
(* second file while the first is at its await.                            *)
(***************************************************************************)
StaleFileNames == {"A", "B"}

StaleNames ==
  { <<"foo">>,
    <<"N", CC, "C", CC, "m">>,               \* N::C::m
    <<"void*", "foo">>                       \* void*foo
  }

MaxStaleRows == 1

StaleRowValues ==
  [symKind : {"string"}, symbols : StaleNames, sizeKind : {"number"},
   vmsize : {10, 20}, instantiations : {0}]

StaleArrays == UNION {[1..n -> StaleRowValues] : n \in 0..MaxStaleRows}

InitStale ==
  /\ files \in [StaleFileNames -> StaleArrays]
  /\ pending = {}
  /\ currentFile = NoFile
  /\ hierarchy = NoTree
  /\ maxSize = 0
  /\ minSize = DefaultMinSize
  /\ build = NoBuild
  /\ hung = FALSE
  /\ activeFilters = {}
  /\ searchTerm = <<>>

NextStale ==
  \/ \E f \in StaleFileNames : ProcessFile(f)
  \/ \E f \in StaleFileNames : Complete(f)
  \/ \E f \in StaleFileNames : CompleteHangs(f)
  \/ ChangeFile

SpecStale == InitStale /\ [][NextStale]_vars

(***************************************************************************)
(* Vocabulary of the properties.                                           *)
(***************************************************************************)
\* A build has been published and no later event has replaced it.
Published == build # NoBuild /\ hierarchy = build.root

\* The canonical records of a build, in the order of the dedup map.
Records(b) == [i \in 1..Len(b.symbols) |-> b.rows[b.symbols[i]]]

\* The rows of a build that the normalizer kept, as parsed.
KeptRows(b) == [i \in 1..Len(b.normalized) |-> b.data[b.normalized[i]]]

\* The path segments of a name: the non-empty parts processSymbol returns.
Segments(name) == FilterNonEmpty(processSymbol(name))

\* The sum of a sequence of numbers.
RECURSIVE SumSeq(_)
SumSeq(ns) == IF ns = <<>> THEN 0 ELSE Head(ns) + SumSeq(Tail(ns))

\* The sum of the vmsize of the rows of a sequence that satisfy P.
SumSize(rs, P(_)) ==
  SumSeq([i \in 1..Len(rs) |-> IF P(rs[i]) THEN rs[i].vmsize ELSE 0])

\* The sum of the instantiations of the rows of a sequence that satisfy P.
SumCount(rs, P(_)) ==
  SumSeq([i \in 1..Len(rs) |-> IF P(rs[i]) THEN rs[i].instantiations ELSE 0])

\* The number of rows of a sequence that satisfy P.
CountRows(rs, P(_)) ==
  SumSeq([i \in 1..Len(rs) |-> IF P(rs[i]) THEN 1 ELSE 0])

(***************************************************************************)
(* C1  Conservation: when a build has finished, the size of the root is    *)
(* the sum of the sizes of the canonical records whose name yields at      *)
(* least one path segment.                                                 *)
(***************************************************************************)
C1_Conservation ==
  Published =>
    hierarchy.node[<<>>].size =
      SumSize(Records(build), LAMBDA r : Segments(r.symbols) # <<>>)

\* The concatenation of the strings of arr.
RECURSIVE Concat(_)
Concat(arr) == IF arr = <<>> THEN <<>> ELSE Head(arr) \o Concat(Tail(arr))

\* The strings of arr joined with sep between them.
RECURSIVE Join(_, _)
Join(arr, sep) ==
  IF arr = <<>> THEN <<>>
  ELSE IF Len(arr) = 1 THEN arr[1]
  ELSE arr[1] \o <<sep>> \o Join(Tail(arr), sep)

\* The canonical names of the rows the normalizer kept.
CanonNames(b) ==
  {CanonicalName(KeptRows(b)[i].symbols) : i \in 1..Len(b.normalized)}

\* A well-formed row.
Row(name, size, count) ==
  [symKind |-> "string", symbols |-> name, sizeKind |-> "number",
   vmsize |-> size, instantiations |-> count]

\* The rows of the dedup example.
DedupExample ==
  <<Row(<<"foo", AN, "1">>, 10, 0), Row(<<"foo", AN, "2">>, 20, 0)>>

(***************************************************************************)
(* C2  Dedup counting, as claimed: the record of two or more rows that     *)
(* share a canonical name has the sum of their sizes and the sum of their  *)
(* counts plus 1 for each of the rows; the rows {foo__anon_1, 10, 0} and   *)
(* {foo__anon_2, 20, 0} collapse to the single record {foo, 30, 2}.        *)
(***************************************************************************)
C2_DedupCountsEveryRow ==
  Published =>
    /\ \A c \in CanonNames(build) :
         LET Shares(r) == CanonicalName(r.symbols) = c
             n == CountRows(KeptRows(build), Shares)
         IN n >= 2 =>
              \E i \in 1..Len(build.symbols) :
                /\ Records(build)[i].symbols = c
                /\ Records(build)[i].vmsize = SumSize(KeptRows(build), Shares)
                /\ Records(build)[i].instantiations =
                     SumCount(KeptRows(build), Shares) + n
    /\ build.data = DedupExample =>
         Records(build) = <<Row(<<"foo">>, 30, 2)>>

(***************************************************************************)
(* C2  Dedup counting, amended: the record of the rows that share a        *)
(* canonical name c (c not itself stripping to "_") has the sum of their   *)
(* sizes and the sum of their counts plus 1 for each row after the first;  *)
(* the rows {foo__anon_1, 10, 0} and {foo__anon_2, 20, 0} collapse to the  *)
(* single record {foo, 30, 1}.                                             *)
(***************************************************************************)
C2_DedupCounts ==
  Published =>
    /\ \A c \in CanonNames(build) :
         LET Shares(r) == CanonicalName(r.symbols) = c
             n == CountRows(KeptRows(build), Shares)
         IN CanonicalName(c) # <<"_">> =>
              \E i \in 1..Len(build.symbols) :
                /\ Records(build)[i].symbols = c
                /\ Records(build)[i].vmsize = SumSize(KeptRows(build), Shares)
                /\ Records(build)[i].instantiations =
                     SumCount(KeptRows(build), Shares) + (n - 1)
    /\ build.data = DedupExample =>
         Records(build) = <<Row(<<"foo">>, 30, 1)>>

\* C2 witness: the rows of the example have been collapsed.
C2_Witness == Published /\ build.data = DedupExample

EndsInSuffixShape(name) ==
  \/ SuffixLen(name, AN) > 0
  \/ SuffixLen(name, ST) > 0

(***************************************************************************)
(* C4  Suffix stripping reaches a fixpoint: the canonical name the         *)
(* collapser computes for a row ends in none of the three suffix shapes.   *)
(***************************************************************************)
C4_CanonicalNameIsFixpoint ==
  Published =>
    \A i \in 1..Len(build.normalized) :
      ~EndsInSuffixShape(CanonicalName(KeptRows(build)[i].symbols))

\* s without the tokens of the set drop.
Without(s, drop) == SelectSeq(s, LAMBDA t : t \notin drop)

\* s has no space at either end.
IsTrimmed(s) == s = <<>> \/ (s[1] # SP /\ s[Len(s)] # SP)

\* parts is what splitting s on sep, trimming and dropping empties gives.
IsSplitOn(parts, s, sep) ==
  /\ \A i \in 1..Len(parts) :
       /\ parts[i] # <<>>
       /\ IsTrimmed(parts[i])
       /\ ~Includes(parts[i], sep)
  /\ Without(Concat(parts), {SP}) = Without(s, {SP, sep})
  /\ Len(parts) <= CountRows(s, LAMBDA t : t = sep) + 1

SplitPriorityHolds(symbol) ==
  LET s == StripKeywords(symbol)
      parts == processSymbol(symbol)
  IN IF s # <<>> /\ s[1] = LB THEN parts = <<s>>
     ELSE IF Includes(s, DOT) THEN IsSplitOn(parts, s, DOT)
     ELSE IF Includes(s, CC) THEN IsSplitOn(parts, s, CC)
     ELSE /\ Len(parts) = 1
          /\ IsTrimmed(parts[1])
          /\ \E i \in 0..Len(s) : \E j \in 0..Len(s) :
               /\ parts[1] = SubSeq(s, i + 1, j)
               /\ \A k \in (1..i) \cup ((j + 1)..Len(s)) : s[k] = SP

(***************************************************************************)
(* C5  Split priority of the segmenter.  With s the name after keyword     *)
(* stripping: s starting with "[" is the only segment; otherwise s with a  *)
(* "." is split on "." (also when it has a "::"); otherwise s with a "::"  *)
(* is split on "::"; otherwise the trimmed s is the only segment.  In the  *)
(* split cases every piece is trimmed, non-empty and free of the           *)
(* separator, and the pieces are the text of s in its order;               *)
(* N::C::m gives [N, C, m].                                                *)
(***************************************************************************)
C5_SplitPriority ==
  Published =>
    \A i \in 1..Len(build.symbols) :
      /\ SplitPriorityHolds(Records(build)[i].symbols)
      /\ Records(build)[i].symbols = <<"N", CC, "C", CC, "m">> =>
           processSymbol(Records(build)[i].symbols)
             = << <<"N">>, <<"C">>, <<"m">> >>

\* C5 witness: the records of a build are segmented, among them a name with
\* both a "." and a "::" and a name with a "::" only.
C5_Witness ==
  /\ Published
  /\ \E i \in 1..Len(build.symbols) :
       Records(build)[i].symbols = <<"foo", DOT, SP, DOT, "N", CC, "m">>
  /\ \E i \in 1..Len(build.symbols) :
       Records(build)[i].symbols = <<"N", CC, "C", CC, "m">>

\* const char* foo.bar
ConstCharFooBar == <<"const", SP, "char*", SP, "foo", DOT, "bar">>

\* s is a run of pairs of a listed keyword and a space.
IsKeywordRun(s) ==
  /\ Len(s) % 2 = 0
  /\ \A i \in 1..Len(s) :
       IF i % 2 = 1 THEN s[i] \in KeywordsWithSpace \cup KeywordsBare
       ELSE s[i] = SP

NamesOnPath(tree, p) == [i \in 1..Len(p) |-> tree.node[Prefix(p, i)].name]

\* The segment path of the record passes through the node at p.
PassesThrough(record, p) ==
  LET segs == Segments(record.symbols)
  IN Len(segs) >= Len(p) /\ Prefix(segs, Len(p)) = p

\* After the first k insertions every node but the root has the fullPath
\* of its path and the originalSymbol of the first record through it.
FirstWriterHolds(b, k) ==
  LET tree == BuildPrefix(b.rows, b.symbols, k)
  IN \A p \in DOMAIN tree.node \ {<<>>} :
       /\ tree.node[p].fullPath = Join(NamesOnPath(tree, p), CC)
       /\ \E j \in 1..k :
            /\ PassesThrough(Records(b)[j], p)
            /\ \A h \in 1..(j - 1) : ~PassesThrough(Records(b)[h], p)
            /\ tree.node[p].originalSymbol = Records(b)[j].symbols

\* Insertion k leaves every node that exists in place, with its fullPath
\* and its originalSymbol.
IdentityKept(b, k) ==
  LET before == BuildPrefix(b.rows, b.symbols, k - 1)
      after == BuildPrefix(b.rows, b.symbols, k)
  IN \A p \in DOMAIN before.node :
       /\ p \in DOMAIN after.node
       /\ after.node[p].fullPath = before.node[p].fullPath
       /\ after.node[p].originalSymbol = before.node[p].originalSymbol

(***************************************************************************)
(* C7  First writer wins.  After each insertion of the build, every node   *)
(* but the root has as fullPath the "::"-join of the segment names on its  *)
(* path and as originalSymbol the qualified name of the first record, in   *)
(* the order the normalizer leaves the records in, whose segment path      *)
(* passes through the node; an insertion changes neither field of a node   *)
(* that exists.                                                            *)
(***************************************************************************)
C7_FirstWriterWins ==
  Published =>
    /\ \A k \in 0..Len(build.symbols) : FirstWriterHolds(build, k)
    /\ \A k \in 1..Len(build.symbols) : IdentityKept(build, k)

\* C7 witness: the second record of a build passes through a node the first
\* record created.
C7_Witness ==
  /\ Published
  /\ Len(build.symbols) = 2
  /\ \E p \in DOMAIN build.built.node \ {<<>>} :
       /\ PassesThrough(Records(build)[1], p)
       /\ PassesThrough(Records(build)[2], p)
       /\ Records(build)[1].symbols # Records(build)[2].symbols

(***************************************************************************)
(* C8  Pipeline order: the hierarchy that is published is the one the      *)
(* Variant Merger has annotated: every node below the root carries the     *)
(* count mergeInstantiations gives it on the aggregated tree.              *)
(***************************************************************************)
C8_PublishedIsMerged ==
  Published =>
    LET merged == mergeInstantiations(Aggregate(build.built))
    IN \A p \in DOMAIN hierarchy.node \ {<<>>} :
         /\ p \in DOMAIN merged.node
         /\ hierarchy.node[p].instantiations = merged.node[p].instantiations

\* Trees a and b differ in instantiation counts at most.
SameButCounts(a, b) ==
  /\ DOMAIN a.node = DOMAIN b.node
  /\ \A p \in DOMAIN a.node :
       /\ p \in DOMAIN b.node
       /\ a.node[p].name = b.node[p].name
       /\ a.node[p].size = b.node[p].size
       /\ a.node[p].fullPath = b.node[p].fullPath
       /\ a.node[p].originalSymbol = b.node[p].originalSymbol
       /\ ChildSeq(a, p) = ChildSeq(b, p)

(***************************************************************************)
(* C9  The Variant Merger changes nothing but instantiation counts: on     *)
(* every tree of the builder, mergeInstantiations returns a tree with the  *)
(* same nodes under the same keys in the same order and with the same      *)
(* name, size, fullPath and originalSymbol.                                *)
(***************************************************************************)
C9_MergerKeepsStructure ==
  Published => SameButCounts(build.root, mergeInstantiations(build.root))

\* C9 witness: the merger runs on a tree with two leaves of one base name and
\* changed a count.
C9_Witness ==
  /\ Published
  /\ \E p \in DOMAIN build.root.node : \E q \in DOMAIN build.root.node :
       /\ p # q
       /\ IsLeaf(build.root, p)
       /\ IsLeaf(build.root, q)
       /\ GroupBaseName(build.root.node[p].name)
            = GroupBaseName(build.root.node[q].name)
  /\ mergeInstantiations(build.root).node # build.root.node

\* The leaves whose segment name strips, as the grouping traversal strips
\* it, to base.
LeavesNamed(tree, base) ==
  {q \in DOMAIN tree.node :
     IsLeaf(tree, q) /\ GroupBaseName(tree.node[q].name) = base}

(***************************************************************************)
(* C10  Variant Merger counts: after the pass every node whose stripped    *)
(* segment name is non-empty and is the stripped name of at least one      *)
(* leaf has as count the number of leaves of the tree with that stripped   *)
(* name, and every other node keeps its count.                             *)
(***************************************************************************)
C10_MergerCounts ==
  Published =>
    LET merged == mergeInstantiations(build.root)
    IN \A p \in DOMAIN build.root.node :
         LET base == GroupBaseName(build.root.node[p].name)
             n == Cardinality(LeavesNamed(build.root, base))
         IN /\ p \in DOMAIN merged.node
            /\ merged.node[p].instantiations =
                 IF base # <<>> /\ n >= 1 THEN n
                 ELSE build.root.node[p].instantiations

\* The names the classifier is given while a hierarchy is shown: the
\* original symbol of every node below the root.
ClassifiedNames ==
  {hierarchy.node[p].originalSymbol : p \in DOMAIN hierarchy.node \ {<<>>}}

\* The text holds a hash marker: h followed by 16 lowercase hex digits.
HasHashMarker(s) ==
  \E i \in 1..Len(s) :
    /\ i + 16 <= Len(s)
    /\ s[i] = "h"
    /\ \A j \in (i + 1)..(i + 16) :
         s[j] \in Class(Chars("0123456789abcdef"))

\* The name is qualified and holds neither a hash nor an anon marker.
QualifiedUnmarked(name) ==
  /\ IncludesText(Text(name), Chars("::"))
  /\ ~HasHashMarker(Text(name))
  /\ ~IncludesText(Text(name), Chars("__"))

(***************************************************************************)
(* C11  Classification of qualified names, as stated: every name that      *)
(* contains "::" and no hash marker and no "__" is classified as C++.      *)
(***************************************************************************)
C11_QualifiedIsCpp ==
  \A name \in ClassifiedNames :
    QualifiedUnmarked(name) => categorizeSymbol(name) = "C++"

(***************************************************************************)
(* C11  Classification of qualified names: every name that contains "::"   *)
(* and matches none of the SYS-V patterns and none of the Rust patterns,   *)
(* the two rungs of the ladder above C++, is classified as C++, whatever   *)
(* the later rungs would say of it.                                        *)
(***************************************************************************)
C11_QualifiedIsCppPastEarlierRungs ==
  \A name \in ClassifiedNames :
    ( /\ IncludesText(Text(name), Chars("::"))
      /\ ~IsSysV(Text(name))
      /\ ~IsRust(Text(name)) )
    => categorizeSymbol(name) = "C++"

\* A hierarchy is shown that has a node of a qualified name with a dot,
\* classified as C++, and a node of a qualified name of an earlier rung.
C11_Witness ==
  /\ Published
  /\ \E name \in ClassifiedNames :
       /\ QualifiedUnmarked(name)
       /\ IncludesText(Text(name), Chars("."))
       /\ categorizeSymbol(name) = "C++"
  /\ \E name \in ClassifiedNames :
       /\ QualifiedUnmarked(name)
       /\ categorizeSymbol(name) = "Rust"

\* The first present field in the order: original qualified name, full
\* path key, segment name.
OriginalNameFirst(node) ==
  IF node.originalSymbol # Undef THEN node.originalSymbol
  ELSE IF node.fullPath # Undef THEN node.fullPath
  ELSE node.name

\* term is a case-insensitive substring of name.
IsSubstringIgnoringCase(term, name) ==
  \E i \in 0..(Len(Text(name)) - Len(Text(term))) :
    \A j \in 1..Len(Text(term)) :
      LowerChar(Text(name)[i + j]) = LowerChar(Text(term)[j])

(***************************************************************************)
(* C12  Filter search target: while a hierarchy is shown and the search    *)
(* term is not empty, a top-level node passes the search condition of      *)
(* matchesFilters exactly when the term is a case-insensitive substring of *)
(* the first present field among its original qualified name, its full     *)
(* path key and its segment name, in that order.                           *)
(***************************************************************************)
C12_SearchesOriginalName ==
  (hierarchy # NoTree /\ searchTerm # <<>>) =>
    \A p \in ChildSet(hierarchy, <<>>) :
      matchesSearch(hierarchy.node[p])
        <=> IsSubstringIgnoringCase(searchTerm,
                                    OriginalNameFirst(hierarchy.node[p]))

\* What two trees are compared on: the child keys of every node (the
\* paths), and the name, size and count of every node.
Structure(tree) ==
  [p \in DOMAIN tree.node |->
     [name |-> tree.node[p].name,
      size |-> tree.node[p].size,
      instantiations |-> tree.node[p].instantiations]]

(***************************************************************************)
(* C13  Idempotence of the build: when a build has finished, the build run *)
(* again on the same array of row objects, as the first run left them,     *)
(* yields a tree of the same names, sizes, child key sets and counts.      *)
(***************************************************************************)
C13_BuildIsIdempotent ==
  Published => Structure(Build(build.rows).root) = Structure(build.root)

(***************************************************************************)
(* C14  Stale builds are discarded: no hierarchy is shown while no file is *)
(* current, so a build that completes after Change File publishes nothing; *)
(* and once no processFile is pending, the hierarchy shown and maxSize are *)
(* those built from the rows of the file named by currentFile, so the      *)
(* build of a file chosen earlier never replaces that of the file chosen   *)
(* last.                                                                   *)
(***************************************************************************)
C14_StaleBuildsDiscarded ==
  /\ currentFile = NoFile => hierarchy = NoTree
  /\ (~hung /\ pending = {} /\ hierarchy # NoTree) =>
       /\ hierarchy = Build(files[currentFile]).root
       /\ maxSize = Build(files[currentFile]).maxVmSize

(***************************************************************************)
(* C15  Termination of the build: no complete callback is ever caught in   *)
(* a loop that does not end; the keyword-stripping loop of processSymbol   *)
(* ends for the name of every record, so that every build that starts      *)
(* runs to setHierarchy.                                                   *)
(***************************************************************************)
C15_BuildTerminates == ~hung

\* Every row.
AnyRow(r) == TRUE

(***************************************************************************)
(* C16  No kept row's bytes are lost in collapsing: when a build has       *)
(* finished, the records of the dedup map hold between them the size of    *)
(* every row the normalizer kept, and the size of the root is the sum of   *)
(* the sizes of the kept rows whose canonical name yields at least one     *)
(* path segment.                                                           *)
(***************************************************************************)
C16_NoBytesLostInCollapsing ==
  Published =>
    /\ SumSize(Records(build), AnyRow) = SumSize(KeptRows(build), AnyRow)
    /\ hierarchy.node[<<>>].size =
         SumSize(KeptRows(build),
                 LAMBDA r : Segments(CanonicalName(r.symbols)) # <<>>)

====
